---- MODULE Spec2Model ----
(***************************************************************************)
(* Revenue-prediction pipeline of AdventureWork2022: the artifact store    *)
(* and the ModelManager (src/src/scripts/model_manager.py), and the        *)
(* prediction service built on it (src/web/backend/main.py, models.py,     *)
(* config.py).                                                             *)
(*                                                                         *)
(* Library behaviour the code relies on is modelled as the libraries of    *)
(* the code's own time behave (scipy >= 1.9, pandas 2.x, scikit-learn      *)
(* >= 1.4, xgboost 2.x; the training script imports                        *)
(* sklearn.metrics.root_mean_squared_error, which exists from 1.4 on):     *)
(*   - scipy.stats.boxcox(x, lmbda=l) is scipy.special.boxcox(x, l): it    *)
(*     never raises; it yields nan for x < 0 and, for x = 0, -1/l when     *)
(*     l > 0 and -inf when l <= 0;                                         *)
(*   - pandas.to_datetime raises on a text that is no date and on a date   *)
(*     outside the nanosecond range (years 1678..2261 are inside);         *)
(*   - OneHotEncoder.transform raises when the columns it is given are not *)
(*     the columns it was fitted on; with handle_unknown="ignore" an       *)
(*     unknown category gives a block of zeros;                            *)
(*   - XGBRegressor.predict raises when the frame's columns are not the    *)
(*     columns the model was fitted on, and on an infinite value; nan is   *)
(*     a missing value to it.                                              *)
(***************************************************************************)
EXTENDS Integers, Sequences, FiniteSets, TLC

VARIABLES
    modelStore,     \* <name>_model.joblib in model_dir, by pipeline name
    prepStore,      \* <name>_preprocessing.joblib in model_dir, by pipeline name
    mgr,            \* the ModelManager's fields
    call,           \* the last direct call of a ModelManager method
    result,         \* what that call returned or raised
    last,           \* the columns of the last successful transform since the last load
    svc,            \* where the service's lifespan stands
    app_state,      \* app.state.model_manager: "unset", "manager" or "none"
    request,        \* the last request dispatched to a route
    response,       \* the answer to it
    written,        \* per blob of the store, how often it was saved and the value saved last
    trained         \* the latest run of train_model, and the run before it

vars ==
    <<modelStore, prepStore, mgr, call, result, last, svc, app_state, request, response,
      written, trained>>

----------------------------------------------------------------------------
\* Values. Python's None is the empty tuple, a held value a one-tuple.

None == <<>>
Some(v) == <<v>>
IsNone(o) == Len(o) = 0
Get(o) == o[1]

\* One cell of a frame. Every cell has the same fields, whatever it holds.
Cell(k, s, a, b, c) == [kind |-> k, s |-> s, a |-> a, b |-> b, c |-> c]
Str(s) == Cell("str", s, 0, 0, 0)
Num(n) == Cell("num", "", n, 0, 0)
NaN == Cell("nan", "", 0, 0, 0)
NegInf == Cell("-inf", "", 0, 0, 0)
\* The text "YYYY-MM-DD" of a calendar date.
DateText(y, m, d) == Cell("date", "", y, m, d)
\* (x^l - 1) / l, or log x at l = 0, for a finite result; l in hundredths.
BoxCoxOf(x, l) == Cell("boxcox", "", x, l, 0)

RECURSIVE Flatten(_)
Flatten(ss) == IF ss = <<>> THEN <<>> ELSE Head(ss) \o Flatten(Tail(ss))

Range(s) == {s[i] : i \in DOMAIN s}
\* The members of S in the order of the sequence u (u lists them sorted).
SortedBy(u, S) == SelectSeq(u, LAMBDA x : x \in S)

----------------------------------------------------------------------------
\* Frames (pandas.DataFrame): ordered columns, each row its cells in that order.
\* (Concatenation with the empty sequence leaves a sequence as it is; it makes
\* TLC hold the sequence by its elements.)

Frame(cols, rows) == [columns |-> cols \o <<>>, rows |-> rows \o <<>>]
EmptyFrame == Frame(<<>>, <<>>)
HasCol(df, c) == c \in Range(df.columns)
ColIdx(df, c) == CHOOSE j \in DOMAIN df.columns : df.columns[j] = c

\* df[c], one cell per row
Col(df, c) == LET j == ColIdx(df, c) IN [i \in DOMAIN df.rows |-> df.rows[i][j]]

\* df.drop(columns=S)
DropCols(df, S) ==
    LET keep == SelectSeq([j \in DOMAIN df.columns |-> j], LAMBDA j : df.columns[j] \notin S)
    IN  Frame([k \in DOMAIN keep |-> df.columns[keep[k]]],
              [i \in DOMAIN df.rows |-> [k \in DOMAIN keep |-> df.rows[i][keep[k]]] \o <<>>])

\* df[c] = cells (one per row): a new column goes last, an old one keeps its place.
SetCol(df, c, cells) ==
    IF HasCol(df, c)
    THEN LET j == ColIdx(df, c)
         IN  Frame(df.columns, [i \in DOMAIN df.rows |-> [df.rows[i] EXCEPT ![j] = cells[i]]])
    ELSE Frame(Append(df.columns, c), [i \in DOMAIN df.rows |-> Append(df.rows[i], cells[i])])

\* pandas.concat([df, encoded], axis=1): the new columns go last.
ConcatCols(df, cols, cells) ==
    Frame(df.columns \o cols, [i \in DOMAIN df.rows |-> df.rows[i] \o cells[i]])

Ok(df) == [ok |-> TRUE, df |-> df, err |-> ""]
Raise(e) == [ok |-> FALSE, df |-> EmptyFrame, err |-> e]

----------------------------------------------------------------------------
\* Feature transform: ModelManager.preprocess_new_data, step by step.

ohe_cols ==
    <<"PersonType", "ProductLine", "Name_territory", "CountryRegionCode", "Group">>

\* pandas.to_datetime on one cell: the error it raises, "" when it parses.
to_datetime_err(c) ==
    IF c.kind # "date" THEN "DateParseError"
    ELSE IF c.a < 1678 \/ c.a > 2261 THEN "OutOfBoundsDatetime"
    ELSE ""

\* 1. date decomposition
ExtractDate(df) ==
    IF ~HasCol(df, "OrderDate") THEN Ok(df)
    ELSE LET dt == Col(df, "OrderDate")
             bad == {i \in DOMAIN dt : to_datetime_err(dt[i]) # ""}
         IN  IF bad # {}
             THEN Raise(to_datetime_err(dt[CHOOSE i \in bad : \A j \in bad : i <= j]))
             ELSE LET y == SetCol(df, "Year", [i \in DOMAIN dt |-> Num(dt[i].a)])
                      m == SetCol(y, "Month", [i \in DOMAIN dt |-> Num(dt[i].b)])
                      d == SetCol(m, "Day", [i \in DOMAIN dt |-> Num(dt[i].c)])
                  IN  Ok(DropCols(d, {"OrderDate"}))

\* The fill with another word than training's.
FillProductLine_unknown(df) ==
    IF ~HasCol(df, "ProductLine") THEN df
    ELSE LET pl == Col(df, "ProductLine")
         IN  SetCol(df, "ProductLine",
                    [i \in DOMAIN pl |-> IF pl[i].kind = "nan" THEN Str("Unknown")
                                         ELSE pl[i]])

\* 2. df["ProductLine"].fillna("Unidentified")
FillProductLine(df) ==
    IF ~HasCol(df, "ProductLine") THEN df
    ELSE LET pl == Col(df, "ProductLine")
         IN  SetCol(df, "ProductLine",
                    [i \in DOMAIN pl |-> IF pl[i].kind = "nan" THEN Str("Unidentified")
                                         ELSE pl[i]])

\* scipy.special.boxcox(x, l)
special_boxcox(x, l) ==
    IF x > 0 THEN BoxCoxOf(x, l)
    ELSE IF x < 0 THEN NaN
    ELSE IF l > 0 THEN BoxCoxOf(0, l)
    ELSE NegInf

\* 3. power transform with the fitted exponent
BoxCoxStep(df, fitted_lambda) ==
    IF ~HasCol(df, "OrderQty") THEN df
    ELSE LET q == Col(df, "OrderQty")
         IN  DropCols(SetCol(df, "OrderQty_boxcox",
                             [i \in DOMAIN q |-> special_boxcox(q[i].a, fitted_lambda)]),
                      {"OrderQty"})

\* OneHotEncoder.get_feature_names_out: <<field, category>> by fitted order.
EncodedPairs(ohe) ==
    Flatten([i \in DOMAIN ohe.feature_names_in |->
        [j \in DOMAIN ohe.categories[ohe.feature_names_in[i]] |->
            <<ohe.feature_names_in[i], ohe.categories[ohe.feature_names_in[i]][j]>>]])

EncodedName(p) == p[1] \o "_" \o p[2]

EncodedColumns(ohe) ==
    [j \in DOMAIN EncodedPairs(ohe) |-> EncodedName(EncodedPairs(ohe)[j])]

\* The cell is one of the categories the encoder was fitted with.
Known(ohe, f, c) == c.kind = "str" /\ c.s \in Range(ohe.categories[f])

\* OneHotStep done as pandas.get_dummies does it: a column for each category
\* the frame at hand holds, the fitted vocabulary left aside.
OneHotStep_get_dummies(ohe, df) ==
    LET available == SelectSeq(ohe_cols, LAMBDA c : HasCol(df, c))
        pairs == SelectSeq(EncodedPairs(ohe),
                           LAMBDA p : HasCol(df, p[1])
                                      /\ \E i \in DOMAIN df.rows :
                                             df.rows[i][ColIdx(df, p[1])] = Str(p[2]))
    IN  IF available = <<>> THEN Ok(df)
        ELSE Ok(ConcatCols(DropCols(df, Range(available)),
                           [j \in DOMAIN pairs |-> EncodedName(pairs[j])],
                           [i \in DOMAIN df.rows |->
                               [j \in DOMAIN pairs |->
                                   IF df.rows[i][ColIdx(df, pairs[j][1])] = Str(pairs[j][2])
                                   THEN Num(1) ELSE Num(0)]]))

\* 4. one-hot expansion of the designated fields the frame has
OneHotStep(ohe, df) ==
    LET available == SelectSeq(ohe_cols, LAMBDA c : HasCol(df, c))
        pairs == EncodedPairs(ohe)
    IN  IF available = <<>> THEN Ok(df)
        ELSE IF available # ohe.feature_names_in
        THEN Raise("ValueError: feature names differ from those seen in fit")
        ELSE IF ohe.handle_unknown = "error"
                /\ \E k \in DOMAIN available : \E i \in DOMAIN df.rows :
                       ~Known(ohe, available[k], Col(df, available[k])[i])
        THEN Raise("ValueError: found unknown categories")
        ELSE Ok(ConcatCols(DropCols(df, Range(available)),
                           EncodedColumns(ohe),
                           [i \in DOMAIN df.rows |->
                               [j \in DOMAIN pairs |->
                                   IF df.rows[i][ColIdx(df, pairs[j][1])] = Str(pairs[j][2])
                                   THEN Num(1) ELSE Num(0)]]))

\* TargetEncoded without the fillna: an unknown name stays nan.
TargetEncoded_no_fillna(table, overall_mean, name) ==
    IF name.kind = "str" /\ name.s \in DOMAIN table THEN Num(table[name.s]) ELSE NaN

\* Series.map(table) then fillna(overall_mean), on one name
TargetEncoded(table, overall_mean, name) ==
    LET mapped == IF name.kind = "str" /\ name.s \in DOMAIN table
                  THEN Num(table[name.s]) ELSE NaN
    IN  IF mapped.kind = "nan" THEN Num(overall_mean) ELSE mapped

\* 5. target encoding of the product name
TargetEncodeStep(self, df) ==
    IF ~HasCol(df, "Name") THEN Ok(df)
    ELSE IF IsNone(self.product_target_mean)
    THEN Raise("TypeError: 'NoneType' object is not callable")
    ELSE IF IsNone(self.overall_mean)
    THEN Raise("ValueError: Must specify a fill 'value' or 'method'")
    ELSE LET nm == Col(df, "Name")
         IN  Ok(DropCols(SetCol(df, "Name_target_encoded",
                                [i \in DOMAIN nm |->
                                    TargetEncoded(Get(self.product_target_mean),
                                                  Get(self.overall_mean), nm[i])]),
                         {"Name"}))

NotLoadedPreprocessing == "ValueError: preprocessing components not loaded"
NotLoadedModel == "ValueError: model not loaded"

preprocess_new_data(self, new_data_df) ==
    IF IsNone(self.ohe) \/ IsNone(self.fitted_lambda)
    THEN Raise(NotLoadedPreprocessing)
    ELSE LET s1 == ExtractDate(new_data_df)
         IN  IF ~s1.ok THEN s1
             ELSE LET s4 == OneHotStep(Get(self.ohe),
                                       BoxCoxStep(FillProductLine(s1.df),
                                                  Get(self.fitted_lambda)))
                  IN  IF ~s4.ok THEN s4 ELSE TargetEncodeStep(self, s4.df)

----------------------------------------------------------------------------
\* Fitted artifacts and the trained model, as train_model makes them.

\* The categories of each designated field in Python's string order.
CategoryOrder ==
    [f \in Range(ohe_cols) |->
        CASE f = "PersonType" -> <<"IN", "SC", "XX">>
          [] f = "ProductLine" -> <<"", "M", "R", "Unidentified", "X">>
          [] f = "Name_territory" -> <<"Canada", "Southwest">>
          [] f = "CountryRegionCode" -> <<"CA", "US">>
          [] f = "Group" -> <<"North America", "Pacific">>]

\* OneHotEncoder(sparse_output=False).fit(...): handle_unknown left at its default.
OneHotEncoder_fit_default(seen) ==
    [feature_names_in |-> ohe_cols,
     categories |-> [f \in Range(ohe_cols) |-> SortedBy(CategoryOrder[f], seen[f])],
     handle_unknown |-> "error"]

\* OneHotEncoder(sparse_output=False, handle_unknown="ignore").fit(train_df[ohe_cols]),
\* seen[f] the values of field f in the training partition.
OneHotEncoder_fit(seen) ==
    [feature_names_in |-> ohe_cols,
     categories |-> [f \in Range(ohe_cols) |-> SortedBy(CategoryOrder[f], seen[f])],
     handle_unknown |-> "ignore"]

\* The columns of X_train: what is left of the training frame after the steps.
TrainColumns(ohe) ==
    <<"Year", "Month", "Day", "OrderQty_boxcox">> \o EncodedColumns(ohe)
        \o <<"Name_target_encoded">>

\* XGBRegressor.fit(X_train, y_train): the model remembers its columns.
XGBRegressor_fit(id, ohe) == [id |-> id, feature_names |-> TrainColumns(ohe)]

\* XGBRegressor.predict(frame): one prediction per row, a function of the row alone.
XGBRegressor_predict(model, df) ==
    IF df.columns # model.feature_names
    THEN [ok |-> FALSE, predictions |-> <<>>, err |-> "ValueError: feature_names mismatch"]
    ELSE IF \E i \in DOMAIN df.rows : \E j \in DOMAIN df.rows[i] : df.rows[i][j].kind = "-inf"
    THEN [ok |-> FALSE, predictions |-> <<>>, err |-> "XGBoostError: input data contains inf"]
    ELSE [ok |-> TRUE,
          predictions |-> [i \in DOMAIN df.rows |-> [model |-> model.id, x |-> df.rows[i]]],
          err |-> ""]

----------------------------------------------------------------------------
\* ModelManager: its fields, the store, load and predict.

\* ModelManager.__init__
NewManager ==
    [model |-> None, ohe |-> None, fitted_lambda |-> None,
     product_target_mean |-> None, overall_mean |-> None]

\* A blob of the store: no file, a file joblib cannot read, or a saved value.
Absent == [st |-> "absent", val |-> None]
Corrupt == [st |-> "corrupt", val |-> None]
Saved(v) == [st |-> "ok", val |-> Some(v)]

\* joblib.load(filepath)
joblib_load(blob) ==
    IF blob.st = "absent" THEN [ok |-> FALSE, val |-> None, err |-> "FileNotFoundError"]
    ELSE IF blob.st = "corrupt" THEN [ok |-> FALSE, val |-> None, err |-> "EOFError"]
    ELSE [ok |-> TRUE, val |-> blob.val, err |-> ""]

\* The dict save_preprocessing_components dumps.
preprocessing_data(ohe, fitted_lambda, product_target_mean, overall_mean) ==
    [ohe |-> ohe, fitted_lambda |-> fitted_lambda,
     product_target_mean |-> product_target_mean, overall_mean |-> overall_mean]

load_model_joblib(mstore, model_name) == joblib_load(mstore[model_name])

\* The manager after the call, and the error the call raised ("" for none).
load_preprocessing_components(self, pstore, model_name) ==
    LET r == joblib_load(pstore[model_name])
    IN  IF ~r.ok THEN [self |-> self, err |-> r.err]
        ELSE [self |-> [self EXCEPT !.ohe = Some(Get(r.val).ohe),
                                    !.fitted_lambda = Some(Get(r.val).fitted_lambda),
                                    !.product_target_mean = Some(Get(r.val).product_target_mean),
                                    !.overall_mean = Some(Get(r.val).overall_mean)],
              err |-> ""]

load_complete_pipeline(self, mstore, pstore, model_name) ==
    LET m == load_model_joblib(mstore, model_name)
    IN  IF ~m.ok THEN [self |-> self, err |-> m.err]
        ELSE load_preprocessing_components([self EXCEPT !.model = m.val], pstore, model_name)

\* predict with "return None" where it raises for a missing model.
predict_returns_none(self, new_data_df) ==
    IF IsNone(self.model)
    THEN [ok |-> TRUE, predictions |-> <<>>, err |-> ""]
    ELSE LET processed_data == preprocess_new_data(self, new_data_df)
         IN  IF ~processed_data.ok
             THEN [ok |-> FALSE, predictions |-> <<>>, err |-> processed_data.err]
             ELSE XGBRegressor_predict(Get(self.model), processed_data.df)

predict(self, new_data_df) ==
    IF IsNone(self.model)
    THEN [ok |-> FALSE, predictions |-> <<>>, err |-> NotLoadedModel]
    ELSE LET processed_data == preprocess_new_data(self, new_data_df)
         IN  IF ~processed_data.ok
             THEN [ok |-> FALSE, predictions |-> <<>>, err |-> processed_data.err]
             ELSE XGBRegressor_predict(Get(self.model), processed_data.df)

----------------------------------------------------------------------------
\* Inputs: records, frames, fitted pipelines and what the store may hold.

\* The fields of a record, in the order models.PredictionInput declares them.
Fields ==
    <<"PersonType", "OrderQty", "Name", "ProductLine", "Name_territory",
      "CountryRegionCode", "Group", "OrderDate">>

\* The example record of models.PredictionInput (OrderDate as in the example).
BaseRecord ==
    [f \in Range(Fields) |->
        CASE f = "PersonType" -> Str("IN")
          [] f = "OrderQty" -> Num(5)
          [] f = "Name" -> Str("Road-250")
          [] f = "ProductLine" -> Str("M")
          [] f = "Name_territory" -> Str("Southwest")
          [] f = "CountryRegionCode" -> Str("US")
          [] f = "Group" -> Str("North America")
          [] f = "OrderDate" -> DateText(2013, 7, 1)]

\* The values each field takes besides the base record's.
FieldValues ==
    [f \in Range(Fields) |->
        CASE f = "PersonType" -> {Str("SC"), Str("XX")}
          [] f = "OrderQty" -> {Num(0 - 1), Num(0), Num(1), Num(1000), Num(1001)}
          [] f = "Name" -> {Str("Touring-9000")}
          [] f = "ProductLine" -> {Str("X"), Str(""), NaN}
          [] f = "Name_territory" -> {Str("Canada")}
          [] f = "CountryRegionCode" -> {Str("CA")}
          [] f = "Group" -> {Str("Pacific")}
          [] f = "OrderDate" -> {DateText(1000, 1, 1), Str("01/07/2013")}]

\* The base record and every record that differs from it in one field.
Records ==
    {BaseRecord} \cup
    UNION {{[BaseRecord EXCEPT ![f] = v] : v \in FieldValues[f]} : f \in Range(Fields)}

\* The records that frames and requests of several rows are made of.
BatchRecords ==
    {BaseRecord,
     [BaseRecord EXCEPT !["OrderQty"] = Num(0)],
     [BaseRecord EXCEPT !["OrderQty"] = Num(1000)],
     [BaseRecord EXCEPT !["PersonType"] = Str("SC")],
     [BaseRecord EXCEPT !["Name"] = Str("Touring-9000")],
     [BaseRecord EXCEPT !["OrderDate"] = DateText(1000, 1, 1)]}

MaxBatch == 2

Batches == UNION {[1..k -> BatchRecords] : k \in 2..MaxBatch}

\* pandas.DataFrame(list of dicts): the columns are the keys, in their order.
DataFrame(dicts) ==
    Frame(Fields, [i \in DOMAIN dicts |-> [j \in DOMAIN Fields |-> dicts[i][Fields[j]]]])

Frames ==
    {DataFrame(<<r>>) : r \in Records}
    \cup {DataFrame(rs) : rs \in Batches}
    \cup {DropCols(DataFrame(<<BaseRecord>>), {f}) : f \in Range(Fields)}
    \cup {DropCols(DataFrame(<<BaseRecord>>), Range(ohe_cols))}

FullFrame(df) == df.columns = Fields

SeenRich ==
    [f \in Range(ohe_cols) |->
        CASE f = "PersonType" -> {"IN", "SC"}
          [] f = "ProductLine" -> {"M", "R", "Unidentified"}
          [] f = "Name_territory" -> {"Canada", "Southwest"}
          [] f = "CountryRegionCode" -> {"CA", "US"}
          [] f = "Group" -> {"North America", "Pacific"}]

SeenPoor ==
    [f \in Range(ohe_cols) |->
        CASE f = "PersonType" -> {"IN"}
          [] f = "ProductLine" -> {"M"}
          [] f = "Name_territory" -> {"Southwest"}
          [] f = "CountryRegionCode" -> {"US"}
          [] f = "Group" -> {"North America"}]

ArtifactsA ==
    preprocessing_data(OneHotEncoder_fit(SeenRich), 35,
                       [n \in {"Road-250"} |-> 1500], 900)

ArtifactsB ==
    preprocessing_data(OneHotEncoder_fit(SeenPoor), 0,
                       [n \in {"Road-250", "Mountain-200"} |->
                           IF n = "Road-250" THEN 1400 ELSE 2000], 1200)

ModelA == XGBRegressor_fit(1, ArtifactsA.ohe)
ModelB == XGBRegressor_fit(2, ArtifactsB.ohe)

ModelBlobs == {Absent, Corrupt, Saved(ModelA), Saved(ModelB)}
PrepBlobs == {Absent, Corrupt, Saved(ArtifactsA), Saved(ArtifactsB)}

\* settings.MODEL_NAME
MODEL_NAME == "xgboost_model"
\* The pipeline names: the one train_model saves and the service loads, and
\* the default of load_complete_pipeline, which nothing saves.
Names == {MODEL_NAME, "complete_pipeline"}

NoCall == [op |-> "", name |-> "", df |-> EmptyFrame]
NoResult == [ok |-> TRUE, df |-> EmptyFrame, predictions |-> <<>>, err |-> "", value |-> None]
NoRequest == [op |-> "", data |-> <<>>]
NoResponse == [status |-> 0, success |-> FALSE, prediction |-> <<>>, input_data |-> <<>>,
               predictions |-> <<>>, detail |-> <<>>]
\* No blob saved yet, no training run yet.
NeverWritten ==
    [kind \in {"model", "preprocessing"} |-> [n \in Names |-> [count |-> 0, value |-> None, before |-> None]]]
NoTraining == [run |-> None, prev |-> None]

\* The store before any service or script runs: the blobs of MODEL_NAME are
\* whatever earlier training runs left, the other name has none.
InitStore ==
    /\ \E mb \in ModelBlobs :
           modelStore = [n \in Names |-> IF n = MODEL_NAME THEN mb ELSE Absent]
    /\ \E pb \in PrepBlobs :
           prepStore = [n \in Names |-> IF n = MODEL_NAME THEN pb ELSE Absent]

----------------------------------------------------------------------------
\* SpecManager: a script that holds one ModelManager and calls its methods.

InitManager ==
    /\ InitStore
    /\ mgr = NewManager
    /\ call = NoCall
    /\ result = NoResult
    /\ last = None
    /\ svc = "Uninitialized"
    /\ app_state = "unset"
    /\ request = NoRequest
    /\ response = NoResponse
    /\ written = NeverWritten
    /\ trained = NoTraining

ServiceIdle == UNCHANGED <<svc, app_state, request, response, written, trained>>

\* The script calls one method at a time and takes what it returns or raises.
Idle == call = NoCall

Return ==
    /\ call # NoCall
    /\ call' = NoCall
    /\ result' = NoResult
    /\ last' = IF call.op = "preprocess_new_data" /\ result.ok
               THEN Some([columns |-> result.df.columns, full |-> FullFrame(call.df)])
               ELSE IF call.op \in {"load_complete_pipeline", "load_preprocessing_components"}
               THEN None ELSE last
    /\ UNCHANGED <<modelStore, prepStore, mgr>>
    /\ ServiceIdle

CallLoadCompletePipeline(name) ==
    LET r == load_complete_pipeline(mgr, modelStore, prepStore, name)
    IN  /\ Idle
        /\ mgr' = r.self
        /\ call' = [op |-> "load_complete_pipeline", name |-> name, df |-> EmptyFrame]
        /\ result' = [ok |-> r.err = "", df |-> EmptyFrame, predictions |-> <<>>, err |-> r.err, value |-> None]
        /\ UNCHANGED <<modelStore, prepStore, last>>
        /\ ServiceIdle

CallLoadPreprocessingComponents(name) ==
    LET r == load_preprocessing_components(mgr, prepStore, name)
    IN  /\ Idle
        /\ mgr' = r.self
        /\ call' = [op |-> "load_preprocessing_components", name |-> name, df |-> EmptyFrame]
        /\ result' = [ok |-> r.err = "", df |-> EmptyFrame, predictions |-> <<>>, err |-> r.err, value |-> None]
        /\ UNCHANGED <<modelStore, prepStore, last>>
        /\ ServiceIdle

CallPreprocessNewData(df) ==
    LET r == preprocess_new_data(mgr, df)
    IN  /\ Idle
        /\ call' = [op |-> "preprocess_new_data", name |-> "", df |-> df]
        /\ result' = [ok |-> r.ok, df |-> r.df, predictions |-> <<>>, err |-> r.err, value |-> None]
        /\ UNCHANGED <<modelStore, prepStore, mgr, last>>
        /\ ServiceIdle

CallPredict(df) ==
    LET r == predict(mgr, df)
    IN  /\ Idle
        /\ call' = [op |-> "predict", name |-> "", df |-> df]
        /\ result' = [ok |-> r.ok, df |-> EmptyFrame, predictions |-> r.predictions, err |-> r.err,
                       value |-> None]
        /\ UNCHANGED <<modelStore, prepStore, mgr, last>>
        /\ ServiceIdle

NextManager ==
    \/ \E name \in Names : CallLoadCompletePipeline(name)
    \/ \E name \in Names : CallLoadPreprocessingComponents(name)
    \/ \E df \in Frames : CallPreprocessNewData(df)
    \/ \E df \in Frames : CallPredict(df)
    \/ Return

SpecManager == InitManager /\ [][NextManager]_vars

----------------------------------------------------------------------------
\* The prediction service: request validation (models.py) and the routes and
\* lifespan of main.py.

valid_types == {"SC", "IN", "SP", "EM", "VC", "GC"}
valid_lines == {"M", "R", "T", "S"}
OrderQty_ge == 1
OrderQty_le == 1000
min_items == 1
max_items == 100

\* PredictionInput accepts the JSON object: every field a string (OrderQty an
\* integer), within the constraints and validators of the class.
PredictionInput_valid(r) ==
    /\ r["PersonType"].kind = "str" /\ r["PersonType"].s \in valid_types
    /\ r["OrderQty"].kind = "num"
    /\ r["OrderQty"].a >= OrderQty_ge /\ r["OrderQty"].a <= OrderQty_le
    /\ r["Name"].kind = "str"
    /\ r["ProductLine"].kind = "str"
    /\ (r["ProductLine"].s = "" \/ r["ProductLine"].s \in valid_lines)
    /\ r["Name_territory"].kind = "str"
    /\ r["CountryRegionCode"].kind = "str"
    /\ r["Group"].kind = "str"
    /\ r["OrderDate"].kind = "date"

BatchPredictionInput_valid(data) ==
    /\ Len(data) >= min_items
    /\ Len(data) <= max_items
    /\ \A i \in DOMAIN data : PredictionInput_valid(data[i])

\* A response: the status and, of the body, what the routes put in it.
Response(status, success, prediction, input_data, predictions, detail) ==
    [status |-> status, success |-> success, prediction |-> prediction,
     input_data |-> input_data, predictions |-> predictions, detail |-> detail]

\* HTTPException(status_code, detail) as a response.
HTTPError(status, detail) == Response(status, FALSE, None, None, <<>>, detail)

\* What a try block did: returned a body, or raised; str(e) of an
\* HTTPException is "<status_code>: <detail>".
Returned(body) == [raised |-> FALSE, body |-> body, text |-> ""]
Raised(text) == [raised |-> TRUE, body |-> HTTPError(0, <<>>), text |-> text]

ModelNotLoaded503 == "503: Model not loaded. Please check server logs."

\* getattr(app.state, 'model_manager', None) is None or its model is None
NotLoadedGuard(app_mm, self) == app_mm # "manager" \/ IsNone(self.model)

\* The try block of predict_revenue.
predict_revenue_try(app_mm, self, input_data) ==
    IF NotLoadedGuard(app_mm, self) THEN Raised(ModelNotLoaded503)
    ELSE LET r == predict(self, DataFrame(<<input_data>>))
         IN  IF ~r.ok THEN Raised(r.err)
             ELSE Returned(Response(200, TRUE, Some(r.predictions[1]),
                                    Some(input_data), <<>>, <<>>))

\* predict_revenue: whatever the try block raises is answered 400.
predict_revenue(app_mm, self, input_data) ==
    LET t == predict_revenue_try(app_mm, self, input_data)
    IN  IF t.raised THEN HTTPError(400, <<"Prediction failed: ", t.text>>)
        ELSE t.body

\* The results paired from the wrong end.
BatchResults_reversed(data, predictions) ==
    [i \in DOMAIN data |->
        [index |-> i - 1, prediction |-> predictions[Len(data) + 1 - i],
         input_data |-> data[i]]]

\* The results list of predict_revenue_batch: zip(batch_input.data, predictions).
BatchResults(data, predictions) ==
    [i \in DOMAIN data |->
        [index |-> i - 1, prediction |-> predictions[i], input_data |-> data[i]]]

\* A batch route that predicts record by record and keeps what succeeds.
predict_revenue_batch_try_partial(app_mm, self, data) ==
    IF NotLoadedGuard(app_mm, self) THEN Raised(ModelNotLoaded503)
    ELSE LET good == SelectSeq(data, LAMBDA r : predict(self, DataFrame(<<r>>)).ok)
         IN  Returned(Response(200, TRUE, None, None,
                               BatchResults(good,
                                            [i \in DOMAIN good |->
                                                predict(self, DataFrame(<<good[i]>>)).predictions[1]]),
                               <<>>))

\* The try block of predict_revenue_batch.
predict_revenue_batch_try(app_mm, self, data) ==
    IF NotLoadedGuard(app_mm, self) THEN Raised(ModelNotLoaded503)
    ELSE LET r == predict(self, DataFrame(data))
         IN  IF ~r.ok THEN Raised(r.err)
             ELSE Returned(Response(200, TRUE, None, None,
                                    BatchResults(data, r.predictions), <<>>))

predict_revenue_batch(app_mm, self, data) ==
    LET t == predict_revenue_batch_try(app_mm, self, data)
    IN  IF t.raised THEN HTTPError(400, <<"Batch prediction failed: ", t.text>>)
        ELSE t.body

\* health_check: status and model_loaded
health_check(app_mm, self) ==
    LET is_healthy == app_mm = "manager" /\ ~IsNone(self.model)
    IN  Response(200, is_healthy, None, None, <<>>,
                 <<IF is_healthy THEN "healthy" ELSE "unhealthy">>)

\* lifespan with the exception logged and not raised again.
lifespan_startup_swallow(self, mstore, pstore) ==
    LET r == load_complete_pipeline(self, mstore, pstore, MODEL_NAME)
    IN  [self |-> r.self, svc |-> "Ready"]

\* The startup half of lifespan once the manager is constructed: the load;
\* an exception is logged and raised again, and the application does not start.
lifespan_startup(self, mstore, pstore) ==
    LET r == load_complete_pipeline(self, mstore, pstore, MODEL_NAME)
    IN  [self |-> r.self, svc |-> IF r.err = "" THEN "Ready" ELSE "Failed"]

----------------------------------------------------------------------------
\* Spec: the service. A route is a coroutine of the app object and runs
\* whenever a request is dispatched to it, whatever the lifespan has done
\* (a server that does not speak the lifespan protocol, a test client used
\* without its context); only the load, which is synchronous, lets nothing
\* else run. Routes do not await, so each runs to its response in one step.

Init ==
    /\ InitStore
    /\ mgr = NewManager
    /\ call = NoCall
    /\ result = NoResult
    /\ last = None
    /\ svc = "Uninitialized"
    /\ app_state = "unset"
    /\ request = NoRequest
    /\ response = NoResponse
    /\ written = NeverWritten
    /\ trained = NoTraining

ScriptIdle == UNCHANGED <<call, result, last, written, trained>>

NoPending == request = NoRequest

\* lifespan up to the construction of the manager (lines 34-39)
LifespanEnter ==
    /\ svc = "Uninitialized"
    /\ NoPending
    /\ svc' = "Loading"
    /\ app_state' = "manager"
    /\ mgr' = NewManager
    /\ UNCHANGED <<modelStore, prepStore, request, response>>
    /\ ScriptIdle

\* lifespan from the load to the yield, or to the raise (lines 40-47)
LifespanLoad ==
    /\ svc = "Loading"
    /\ LET r == lifespan_startup(mgr, modelStore, prepStore)
       IN  mgr' = r.self /\ svc' = r.svc
    /\ UNCHANGED <<modelStore, prepStore, app_state, request, response>>
    /\ ScriptIdle

\* lifespan after the yield (lines 49-54)
LifespanShutdown ==
    /\ svc = "Ready"
    /\ NoPending
    /\ svc' = "Stopped"
    /\ app_state' = "none"
    /\ UNCHANGED <<modelStore, prepStore, mgr, request, response>>
    /\ ScriptIdle

\* A dispatch whose route starts over with an empty manager when it answers
\* anything but 200.
Dispatch_reset(op, data, resp) ==
    /\ svc # "Loading"
    /\ NoPending
    /\ request' = [op |-> op, data |-> data]
    /\ response' = resp
    /\ mgr' = IF resp.status = 200 THEN mgr ELSE NewManager
    /\ UNCHANGED <<modelStore, prepStore, svc, app_state>>
    /\ ScriptIdle

\* A request dispatched to its route, and the route run to its answer: the
\* routes read the manager and assign nothing.
Dispatch(op, data, resp) ==
    /\ svc # "Loading"
    /\ NoPending
    /\ request' = [op |-> op, data |-> data]
    /\ response' = resp
    /\ UNCHANGED <<modelStore, prepStore, mgr, svc, app_state>>
    /\ ScriptIdle

Unprocessable == HTTPError(422, <<"validation error">>)

PostPredict(input) ==
    Dispatch("POST /predict", <<input>>,
             IF PredictionInput_valid(input)
             THEN predict_revenue(app_state, mgr, input) ELSE Unprocessable)

PostPredictBatch(data) ==
    Dispatch("POST /predict/batch", data,
             IF BatchPredictionInput_valid(data)
             THEN predict_revenue_batch(app_state, mgr, data) ELSE Unprocessable)

GetHealth == Dispatch("GET /health", <<>>, health_check(app_state, mgr))

\* The response is sent.
Respond ==
    /\ ~NoPending
    /\ request' = NoRequest
    /\ response' = NoResponse
    /\ UNCHANGED <<modelStore, prepStore, mgr, svc, app_state>>
    /\ ScriptIdle

\* The bodies of batch requests: none, one or several records.
BatchInputs == {<<>>} \cup {<<r>> : r \in BatchRecords} \cup Batches

Next ==
    \/ LifespanEnter
    \/ LifespanLoad
    \/ LifespanShutdown
    \/ \E input \in Records : PostPredict(input)
    \/ \E data \in BatchInputs : PostPredictBatch(data)
    \/ GetHealth
    \/ Respond

Spec == Init /\ [][Next]_vars

----------------------------------------------------------------------------
\* Training: load_and_prepare_data and train_model of train_and_save.py.

\* The columns load_and_prepare_data selects, Class and Style dropped.
PreparedColumns ==
    <<"PersonType", "OrderQty", "Name", "ProductLine", "Name_territory",
      "CountryRegionCode", "Group", "TotalDue", "OrderDate">>

RECURSIVE SumSeq(_)
SumSeq(q) == IF q = <<>> THEN 0 ELSE Head(q) + SumSeq(Tail(q))

\* Series.mean(), in whole units.
Mean(q) == SumSeq(q) \div Len(q)

\* DataFrame.drop_duplicates(): the first of equal rows stays.
drop_duplicates(df) ==
    LET keep == SelectSeq([i \in DOMAIN df.rows |-> i],
                          LAMBDA i : \A j \in 1..(i - 1) : df.rows[j] # df.rows[i])
    IN  Frame(df.columns, [k \in DOMAIN keep |-> df.rows[keep[k]]])

\* load_and_prepare_data, from the merged and selected frame on.
load_and_prepare_data(full_df) ==
    LET d == drop_duplicates(full_df)
        pl == Col(d, "ProductLine")
    IN  SetCol(d, "ProductLine",
               [i \in DOMAIN pl |-> IF pl[i].kind = "nan" THEN Str("Unidentified") ELSE pl[i]])

\* The rows of df at the indices in S, in the frame's order.
TakeRows(df, S) ==
    LET keep == SelectSeq([i \in DOMAIN df.rows |-> i], LAMBDA i : i \in S)
    IN  Frame(df.columns, [k \in DOMAIN keep |-> df.rows[keep[k]]])

\* train_test_split(test_size=0.2): the size of the evaluation partition.
n_test(n) == (n + 4) \div 5

\* scipy.stats.boxcox(x) with no lmbda: the exponent that maximises the
\* log-likelihood of x. Only that it is a fixed function of x matters here;
\* this one stands for it (hundredths).
boxcox_normmax(x) == ((7 * SumSeq(x) + 3 * Len(x)) % 60) - 20

\* The error of scipy.stats.boxcox(x) with no lmbda, "" for none.
boxcox_fit_err(x) ==
    IF \A i \in DOMAIN x : x[i] = x[1] THEN "ValueError: Data must not be constant."
    ELSE IF \E i \in DOMAIN x : x[i] <= 0 THEN "ValueError: Data must be positive."
    ELSE ""

\* The OrderQty column transformed with exponent l and renamed (lines 108-113).
TrainBoxCox(df, l) ==
    LET q == Col(df, "OrderQty")
    IN  DropCols(SetCol(df, "OrderQty_boxcox",
                        [i \in DOMAIN q |-> special_boxcox(q[i].a, l)]),
                 {"OrderQty"})

\* The values of each designated field in a frame.
SeenIn(df) ==
    [f \in Range(ohe_cols) |-> {Col(df, f)[i].s : i \in DOMAIN df.rows}]

\* The encoder fitted on both partitions together.
FitEncoder_on_both(train_df, test_df) ==
    OneHotEncoder_fit([f \in Range(ohe_cols) |-> SeenIn(train_df)[f] \cup SeenIn(test_df)[f]])

\* ohe.fit(train_df[ohe_cols]) (line 118); test_df is in scope and not used.
FitEncoder(train_df, test_df) == OneHotEncoder_fit(SeenIn(train_df))

\* ohe.transform and the concat of its columns (lines 120-129).
TrainOneHot(ohe, df) ==
    LET pairs == EncodedPairs(ohe)
    IN  ConcatCols(DropCols(df, Range(ohe_cols)),
                   [j \in DOMAIN pairs |-> EncodedName(pairs[j])],
                   [i \in DOMAIN df.rows |->
                       [j \in DOMAIN pairs |->
                           IF Col(df, pairs[j][1])[i] = Str(pairs[j][2])
                           THEN Num(1) ELSE Num(0)]])

\* train_df.groupby('Name')['TotalDue'].mean() (line 134)
GroupMean(train_df) ==
    LET nm == Col(train_df, "Name")
        due == Col(train_df, "TotalDue")
        of(n) == SelectSeq([i \in DOMAIN nm |-> i], LAMBDA i : nm[i].s = n)
    IN  [n \in {nm[i].s : i \in DOMAIN nm} |->
            Mean([k \in DOMAIN of(n) |-> due[of(n)[k]].a])]

\* map, fillna and the drop of Name (lines 137-144)
TrainTargetEncode(df, table, overall_mean) ==
    LET nm == Col(df, "Name")
        mapped == [i \in DOMAIN nm |->
                      IF nm[i].s \in DOMAIN table THEN Num(table[nm[i].s]) ELSE NaN]
    IN  DropCols(SetCol(df, "Name_target_encoded",
                        [i \in DOMAIN nm |->
                            IF mapped[i].kind = "nan" THEN Num(overall_mean) ELSE mapped[i]]),
                 {"Name"})

TrainFailed(e) ==
    [ok |-> FALSE, err |-> e, train_rows |-> <<>>, test_rows |-> <<>>,
     X_train |-> EmptyFrame, X_test |-> EmptyFrame, artifacts |-> None, model |-> None]

\* Feature extraction on the whole frame (lines 95-99).
TrainDates(full_df_copy) ==
    LET dt == Col(full_df_copy, "OrderDate")
    IN  DropCols(SetCol(SetCol(SetCol(full_df_copy,
                                      "Year", [i \in DOMAIN dt |-> Num(dt[i].a)]),
                               "Month", [i \in DOMAIN dt |-> Num(dt[i].b)]),
                        "Day", [i \in DOMAIN dt |-> Num(dt[i].c)]),
                 {"OrderDate"})

\* The errors pd.to_datetime finds in the OrderDate column.
TrainDateErrors(full_df_copy) ==
    {to_datetime_err(Col(full_df_copy, "OrderDate")[i]) : i \in DOMAIN full_df_copy.rows}
        \ {""}

\* train_test_split (line 102), test the indices it puts in the evaluation partition.
train_test_split(df, test) ==
    [train_df |-> TakeRows(df, (1..Len(df.rows)) \ test), test_df |-> TakeRows(df, test)]

Quantities(df) == [i \in DOMAIN df.rows |-> Col(df, "OrderQty")[i].a] \o <<>>

\* Lines 108-113 with the fitted exponent l.
TrainBoxCoxWith(s, l) ==
    [train_df |-> TrainBoxCox(s.train_df, l), test_df |-> TrainBoxCox(s.test_df, l),
     fitted_lambda |-> l]

\* Lines 116-129 with the fitted encoder.
TrainOneHotWith(s, ohe) ==
    [train_df |-> TrainOneHot(ohe, s.train_df), test_df |-> TrainOneHot(ohe, s.test_df),
     fitted_lambda |-> s.fitted_lambda, ohe |-> ohe]

\* train_df['TotalDue'].mean() (line 135)
OverallMean(train_df) ==
    Mean([i \in DOMAIN train_df.rows |-> Col(train_df, "TotalDue")[i].a] \o <<>>)

\* Lines 137-144 with the fitted table and fallback.
TrainTargetWith(s, product_target_mean, overall_mean) ==
    [train_df |-> TrainTargetEncode(s.train_df, product_target_mean, overall_mean),
     test_df |-> TrainTargetEncode(s.test_df, product_target_mean, overall_mean),
     fitted_lambda |-> s.fitted_lambda, ohe |-> s.ohe,
     product_target_mean |-> product_target_mean, overall_mean |-> overall_mean]

\* XGBRegressor(random_state=42).fit(X_train, y_train): a fixed function of
\* the training data; the number stands for the fitted trees.
TrainedModel(s) ==
    XGBRegressor_fit(10 * s.overall_mean + Len(s.train_df.rows), s.ohe)

\* X and y, the fit and what is saved (lines 153-193); raw the frame before
\* any step, for the records the rows were made from.
TrainFinish(s, raw, test) ==
    [ok |-> TRUE, err |-> "",
     train_rows |-> TakeRows(raw, (1..Len(raw.rows)) \ test).rows,
     test_rows |-> TakeRows(raw, test).rows,
     X_train |-> DropCols(s.train_df, {"TotalDue"}),
     X_test |-> DropCols(s.test_df, {"TotalDue"}),
     artifacts |-> Some(preprocessing_data(s.ohe, s.fitted_lambda,
                                           s.product_target_mean, s.overall_mean)),
     model |-> Some(TrainedModel(s))]

\* The fits, each on what the steps before it left (lines 108, 118, 134-135).
TrainFitBoxCox(s) == TrainBoxCoxWith(s, boxcox_normmax(Quantities(s.train_df)))
TrainFitEncoder(s) == TrainOneHotWith(s, FitEncoder(s.train_df, s.test_df))
TrainFitTarget(s) == TrainTargetWith(s, GroupMean(s.train_df), OverallMean(s.train_df))

\* train_model from the split on.
TrainSplit(s, raw, test) ==
    IF boxcox_fit_err(Quantities(s.train_df)) # ""
    THEN TrainFailed(boxcox_fit_err(Quantities(s.train_df)))
    ELSE TrainFinish(TrainFitTarget(TrainFitEncoder(TrainFitBoxCox(s))), raw, test)

\* train_model from the prepared frame on.
TrainPrepared(full_df_copy, raw, test) ==
    IF TrainDateErrors(full_df_copy) # {}
    THEN TrainFailed(CHOOSE e \in TrainDateErrors(full_df_copy) : TRUE)
    ELSE IF Len(full_df_copy.rows) - Cardinality(test) = 0
    THEN TrainFailed("ValueError: the resulting train set will be empty")
    ELSE TrainSplit(train_test_split(TrainDates(full_df_copy), test), raw, test)

\* train_model on the merged frame full_df.
train_model(full_df, test) ==
    TrainPrepared(load_and_prepare_data(full_df), drop_duplicates(full_df), test)

----------------------------------------------------------------------------
\* Saving: the store after each save method of the ModelManager.

\* A save that leaves a file that is already there as it is.
save_model_joblib_keep(mstore, model, model_name) ==
    IF mstore[model_name].st = "absent"
    THEN [mstore EXCEPT ![model_name] = Saved(model)] ELSE mstore

\* joblib.dump(model, model_dir / "<model_name>_model.joblib")
save_model_joblib(mstore, model, model_name) ==
    [mstore EXCEPT ![model_name] = Saved(model)]

\* joblib.dump(preprocessing_data, model_dir / "<model_name>_preprocessing.joblib")
save_preprocessing_components(pstore, ohe, fitted_lambda, product_target_mean, overall_mean, model_name) ==
    [pstore EXCEPT ![model_name] =
        Saved(preprocessing_data(ohe, fitted_lambda, product_target_mean, overall_mean))]

\* save_complete_pipeline with the artifacts saved under the default name.
save_complete_pipeline_default_name(mstore, pstore, model, art, model_name) ==
    [mstore |-> save_model_joblib(mstore, model, model_name),
     pstore |-> save_preprocessing_components(pstore, art.ohe, art.fitted_lambda,
                                              art.product_target_mean, art.overall_mean,
                                              "complete_pipeline")]

\* save_complete_pipeline; art holds the four components passed.
save_complete_pipeline(mstore, pstore, model, art, model_name) ==
    [mstore |-> save_model_joblib(mstore, model, model_name),
     pstore |-> save_preprocessing_components(pstore, art.ohe, art.fitted_lambda,
                                              art.product_target_mean, art.overall_mean,
                                              model_name)]

\* The write log after a save of value to the blob of that kind and name.
Wrote(w, kind, name, value) ==
    [w EXCEPT ![kind][name] =
        [count |-> @.count + 1, value |-> Some(value), before |-> @.value]]

\* The saves made so far, over all blobs.
Saves(w) ==
    SumSeq([i \in 1..2 |->
        w[<<"model", "preprocessing">>[i]][MODEL_NAME].count
        + w[<<"model", "preprocessing">>[i]]["complete_pipeline"].count])

\* The saves a store script makes, and the runs of the training script.
MaxSaves == 2
MaxRuns == 2

----------------------------------------------------------------------------
\* SpecTrain: runs of train_and_save.py, and a ModelManager that loads what
\* they saved and transforms the records they were made from.

TrainRow(pt, qty, name, pl, terr, cc, grp, due, date) ==
    <<Str(pt), Num(qty), Str(name), pl, Str(terr), Str(cc), Str(grp), Num(due), date>>

TrainRows ==
    <<TrainRow("IN", 5, "Road-250", Str("M"), "Southwest", "US", "North America",
               1500, DateText(2013, 7, 1)),
      TrainRow("SC", 2, "Mountain-200", Str("R"), "Canada", "CA", "North America",
               2000, DateText(2012, 3, 15)),
      TrainRow("IN", 1, "Road-250", NaN, "Southwest", "US", "North America",
               700, DateText(2013, 7, 2)),
      TrainRow("SC", 5, "Touring-9000", Str("X"), "Canada", "CA", "Pacific",
               300, DateText(2014, 1, 31))>>

\* The merged frames: three rows in the order of TrainRows, one of them with
\* a row twice.
Datasets ==
    {Frame(PreparedColumns, <<TrainRows[i], TrainRows[j], TrainRows[k]>>) :
        <<i, j, k>> \in {t \in (1..4) \X (1..4) \X (1..4) : t[1] < t[2] /\ t[2] < t[3]}}
    \cup {Frame(PreparedColumns, <<TrainRows[1], TrainRows[1], TrainRows[2]>>)}

\* The record of a training row: the row without its target.
RecordFrame(row) == DropCols(Frame(PreparedColumns, <<row>>), {"TotalDue"})

\* One run of train_and_save.py; its own ModelManager does the saving.
TrainModel(full_df, test) ==
    /\ Idle
    /\ written["model"][MODEL_NAME].count < MaxRuns
    /\ Cardinality(test) = n_test(Len(load_and_prepare_data(full_df).rows))
    /\ \E r \in {train_model(full_df, test)} :
        /\ trained' = [run |-> Some(r), prev |-> trained.run]
        /\ IF r.ok
           THEN \E st \in {save_complete_pipeline(modelStore, prepStore, Get(r.model),
                                                  Get(r.artifacts), MODEL_NAME)} :
                    /\ modelStore' = st.mstore
                    /\ prepStore' = st.pstore
                    /\ written' = Wrote(Wrote(written, "model", MODEL_NAME, Get(r.model)),
                                        "preprocessing", MODEL_NAME, Get(r.artifacts))
           ELSE UNCHANGED <<modelStore, prepStore, written>>
    /\ UNCHANGED <<mgr, call, result, last, svc, app_state, request, response>>

NextTrain ==
    \/ \E full_df \in Datasets : \E test \in SUBSET (1..3) : TrainModel(full_df, test)
    \/ CallLoadCompletePipeline(MODEL_NAME)
    \/ \E i \in DOMAIN TrainRows : CallPreprocessNewData(RecordFrame(TrainRows[i]))
    \/ Return

SpecTrain == InitManager /\ [][NextTrain]_vars

----------------------------------------------------------------------------
\* SpecStore: a script that holds one ModelManager and saves and loads
\* pipelines with it.

SaveCall(op, name) == [op |-> op, name |-> name, df |-> EmptyFrame]

\* The fitted pipelines the script has at hand.
Pipelines == {[model |-> ModelA, art |-> ArtifactsA], [model |-> ModelB, art |-> ArtifactsB]}

CallSaveModelJoblib(name, model) ==
    /\ Idle
    /\ Saves(written) + 1 <= MaxSaves
    /\ modelStore' = save_model_joblib(modelStore, model, name)
    /\ written' = Wrote(written, "model", name, model)
    /\ call' = SaveCall("save_model_joblib", name)
    /\ result' = NoResult
    /\ UNCHANGED <<prepStore, mgr, last, trained, svc, app_state, request, response>>

CallSavePreprocessingComponents(name, art) ==
    /\ Idle
    /\ Saves(written) + 1 <= MaxSaves
    /\ prepStore' = save_preprocessing_components(prepStore, art.ohe, art.fitted_lambda,
                                                  art.product_target_mean, art.overall_mean,
                                                  name)
    /\ written' = Wrote(written, "preprocessing", name, art)
    /\ call' = SaveCall("save_preprocessing_components", name)
    /\ result' = NoResult
    /\ UNCHANGED <<modelStore, mgr, last, trained, svc, app_state, request, response>>

CallSaveCompletePipeline(name, model, art) ==
    /\ Idle
    /\ Saves(written) + 2 <= MaxSaves
    /\ \E st \in {save_complete_pipeline(modelStore, prepStore, model, art, name)} :
           modelStore' = st.mstore /\ prepStore' = st.pstore
    /\ written' = Wrote(Wrote(written, "model", name, model), "preprocessing", name, art)
    /\ call' = SaveCall("save_complete_pipeline", name)
    /\ result' = NoResult
    /\ UNCHANGED <<mgr, last, trained, svc, app_state, request, response>>

\* load_model_joblib returns the model and assigns nothing.
CallLoadModelJoblib(name) ==
    /\ Idle
    /\ \E r \in {load_model_joblib(modelStore, name)} :
           result' = [ok |-> r.ok, df |-> EmptyFrame, predictions |-> <<>>, err |-> r.err,
                      value |-> r.val]
    /\ call' = SaveCall("load_model_joblib", name)
    /\ UNCHANGED <<modelStore, prepStore, mgr, last, written, trained>>
    /\ UNCHANGED <<svc, app_state, request, response>>

NextStore ==
    \/ \E name \in Names : \E p \in Pipelines : CallSaveModelJoblib(name, p.model)
    \/ \E name \in Names : \E p \in Pipelines : CallSavePreprocessingComponents(name, p.art)
    \/ \E name \in Names : \E p \in Pipelines : CallSaveCompletePipeline(name, p.model, p.art)
    \/ \E name \in Names : CallLoadModelJoblib(name)
    \/ \E name \in Names : CallLoadPreprocessingComponents(name)
    \/ \E name \in Names : CallLoadCompletePipeline(name)
    \/ Return

SpecStore == InitManager /\ [][NextStore]_vars

----------------------------------------------------------------------------
\* Properties of the ModelManager (SpecManager).

ArtifactsLoaded(self) ==
    /\ ~IsNone(self.ohe)
    /\ ~IsNone(self.fitted_lambda)
    /\ ~IsNone(self.product_target_mean)
    /\ ~IsNone(self.overall_mean)

PipelineLoaded(self) == ~IsNone(self.model) /\ ArtifactsLoaded(self)

Transformed == call.op = "preprocess_new_data" /\ result.ok

\* C1: while the model or the encoding artifacts are missing, predict raises
\* the not-loaded error and returns no prediction, and the transform raises
\* the not-loaded error and returns no frame; predict returns predictions
\* only when the whole pipeline is loaded.
C1_NotReadyGuard ==
    /\ (call.op = "predict" /\ ~PipelineLoaded(mgr)) =>
           /\ ~result.ok
           /\ result.predictions = <<>>
           /\ result.err \in {NotLoadedModel, NotLoadedPreprocessing}
    /\ (call.op = "preprocess_new_data" /\ ~ArtifactsLoaded(mgr)) =>
           /\ ~result.ok
           /\ result.df = EmptyFrame
           /\ result.err = NotLoadedPreprocessing
    /\ (call.op = "predict" /\ result.ok) =>
           /\ PipelineLoaded(mgr)
           /\ Len(result.predictions) = Len(call.df.rows)

\* predict called on a manager that holds a model but no artifacts, and on one
\* that holds neither.
C1_Witness ==
    /\ call.op = "predict"
    /\ ~IsNone(mgr.model)
    /\ IsNone(mgr.ohe)
    /\ result.err = NotLoadedPreprocessing

\* C3: the manager never holds a model without the encoding artifacts: a
\* load_complete_pipeline that raises leaves no model behind.
C3_LoadAtomic == ~IsNone(mgr.model) => ArtifactsLoaded(mgr)

\* C5: with artifacts loaded, a transform of a frame in which some record's
\* OrderQty is zero or negative raises and returns no frame.
C5_DomainError ==
    (/\ call.op = "preprocess_new_data"
     /\ ArtifactsLoaded(mgr)
     /\ HasCol(call.df, "OrderQty")
     /\ \E i \in DOMAIN call.df.rows : Col(call.df, "OrderQty")[i].a <= 0)
    => (~result.ok /\ result.df = EmptyFrame)

\* The value of field f in row i as the one-hot step meets it.
Imputed(df, f, i) ==
    IF f = "ProductLine" /\ Col(df, f)[i].kind = "nan" THEN Str("Unidentified")
    ELSE Col(df, f)[i]

Vocabulary(f) == Range(Get(mgr.ohe).categories[f])

NotIndicator ==
    Range(Fields) \cup {"Year", "Month", "Day", "OrderQty_boxcox", "Name_target_encoded"}

\* C8: in a transform of records that carry the designated fields, a value
\* outside the fitted vocabulary of its field raises nothing (only a date can
\* make the call fail) and gives zero in every indicator column of the field;
\* a value inside sets its own indicator to one and the others to zero; the
\* indicator columns are exactly those of the fitted vocabulary.
C8_UnseenCategory ==
    (/\ call.op = "preprocess_new_data"
     /\ ArtifactsLoaded(mgr)
     /\ \A f \in Range(ohe_cols) : HasCol(call.df, f))
    => /\ ~result.ok => result.err \in {"DateParseError", "OutOfBoundsDatetime"}
       /\ result.ok =>
           /\ Range(result.df.columns) \ NotIndicator =
                  UNION {{f \o "_" \o c : c \in Vocabulary(f)} : f \in Range(ohe_cols)}
           /\ \A f \in Range(ohe_cols) : \A c \in Vocabulary(f) :
                  \A i \in DOMAIN call.df.rows :
                      Col(result.df, f \o "_" \o c)[i] =
                          IF Imputed(call.df, f, i) = Str(c) THEN Num(1) ELSE Num(0)

\* A transform that succeeded on a record whose PersonType is outside the
\* fitted vocabulary, with the whole PersonType block at zero.
C8_Witness ==
    /\ Transformed
    /\ Len(call.df.rows) = 1
    /\ HasCol(call.df, "PersonType")
    /\ Col(call.df, "PersonType")[1] = Str("XX")
    /\ \A c \in Vocabulary("PersonType") : Col(result.df, "PersonType_" \o c)[1] = Num(0)

\* C9: target encoding gives a product name of the fitted table its stored
\* mean and any other name the fitted overall mean, and the Name column is
\* not in the output.
C9_TargetEncoding ==
    (Transformed /\ HasCol(call.df, "Name")) =>
        /\ ~HasCol(result.df, "Name")
        /\ HasCol(result.df, "Name_target_encoded")
        /\ \A i \in DOMAIN call.df.rows :
               LET name == Col(call.df, "Name")[i].s
                   table == Get(mgr.product_target_mean)
               IN  Col(result.df, "Name_target_encoded")[i] =
                       IF name \in DOMAIN table THEN Num(table[name])
                       ELSE Num(Get(mgr.overall_mean))

\* A transform of a record whose product name is not in the table.
C9_Witness ==
    /\ Transformed
    /\ HasCol(call.df, "Name")
    /\ \E i \in DOMAIN call.df.rows :
           /\ Col(call.df, "Name")[i].s \notin DOMAIN Get(mgr.product_target_mean)
           /\ Col(result.df, "Name_target_encoded")[i] = Num(Get(mgr.overall_mean))

\* C10 as claimed: every successful transform of one loaded pipeline, whatever
\* the input records, has the columns of the successful transform before it.
C10_SameColumnsAnyRecords ==
    (Transformed /\ ~IsNone(last)) => result.df.columns = Get(last).columns

\* C10, amended: successful transforms of one loaded pipeline on frames that
\* carry exactly the eight input fields have the same columns in the same order.
C10_SameColumnsFullRecords ==
    (Transformed /\ FullFrame(call.df) /\ ~IsNone(last) /\ Get(last).full)
        => result.df.columns = Get(last).columns

\* Two successful transforms in a row on full frames, the second of two
\* records, one of them with a category outside the vocabulary.
C10_Witness ==
    /\ Transformed
    /\ FullFrame(call.df)
    /\ ~IsNone(last)
    /\ Get(last).full
    /\ Len(call.df.rows) = 2
    /\ \E i \in DOMAIN call.df.rows :
           Col(call.df, "PersonType")[i].s \notin Vocabulary("PersonType")

----------------------------------------------------------------------------
\* Properties of the service (Spec).

PredictOps == {"POST /predict", "POST /predict/batch"}

\* The request at hand passed validation.
Accepted ==
    \/ request.op = "POST /predict" /\ PredictionInput_valid(request.data[1])
    \/ request.op = "POST /predict/batch" /\ BatchPredictionInput_valid(request.data)

\* The answer carries a prediction.
ServesPrediction(resp) == ~IsNone(resp.prediction) \/ resp.predictions # <<>>

ClaimedTransitions ==
    {<<"Uninitialized", "Loading">>, <<"Loading", "Ready">>, <<"Loading", "Failed">>}

\* C2 as claimed, its first part: the service state changes only along
\* Uninitialized -> Loading -> Ready and Loading -> Failed.
C2_OnlyClaimedTransitions ==
    [][svc' # svc => <<svc, svc'>> \in ClaimedTransitions]_vars

\* C2, amended: the state changes only along Uninitialized -> Loading -> Ready,
\* Loading -> Failed and, at shutdown, Ready -> Stopped; the load ends in Ready
\* only with the whole pipeline loaded and in Failed when either blob fails to
\* load; Failed is never left, the manager is not loaded again there, and no
\* request gets a prediction there.
C2_Lifecycle ==
    [][/\ svc' # svc => <<svc, svc'>> \in ClaimedTransitions \cup {<<"Ready", "Stopped">>}
       /\ (svc = "Loading" /\ svc' # svc) =>
              /\ svc' = "Ready" <=>
                     /\ joblib_load(modelStore[MODEL_NAME]).ok
                     /\ joblib_load(prepStore[MODEL_NAME]).ok
              /\ svc' = "Ready" => PipelineLoaded(mgr')
       /\ svc = "Failed" => (svc' = "Failed" /\ mgr' = mgr /\ app_state' = app_state)
       /\ svc' = "Failed" =>
              /\ ~ServesPrediction(response')
              /\ request'.op \in PredictOps => response'.status # 200
      ]_vars

\* A predict request answered in Failed, by a manager that holds the model
\* and no artifacts.
C2_Witness ==
    /\ svc = "Failed"
    /\ ~IsNone(mgr.model)
    /\ request.op = "POST /predict"
    /\ Accepted
    /\ response.status = 400

\* C4: a valid predict or predict_batch request dispatched while the service
\* is not Ready is answered 503.
C4_UnavailableWhenNotReady ==
    (request.op \in PredictOps /\ Accepted /\ svc # "Ready") => response.status = 503

\* The answer of predict_revenue to record r alone, now.
Alone(r) == predict_revenue(app_state, mgr, r)

\* C6: a batch answered 200 has one result per record, in order: result i has
\* index i - 1, the record i as its input and the prediction predict_revenue
\* gives for record i alone; and in Ready every valid batch whose records can
\* each be predicted alone is answered 200.
C6_BatchOrder ==
    request.op = "POST /predict/batch" =>
        /\ response.status = 200 =>
               /\ svc = "Ready"
               /\ Len(response.predictions) = Len(request.data)
               /\ \A i \in DOMAIN request.data :
                      /\ response.predictions[i].index = i - 1
                      /\ response.predictions[i].input_data = request.data[i]
                      /\ Alone(request.data[i]).status = 200
                      /\ response.predictions[i].prediction =
                             Get(Alone(request.data[i]).prediction)
        /\ (svc = "Ready" /\ Accepted
            /\ \A i \in DOMAIN request.data : Alone(request.data[i]).status = 200)
               => response.status = 200

\* A batch of two different records answered with two different predictions.
C6_Witness ==
    /\ request.op = "POST /predict/batch"
    /\ response.status = 200
    /\ Len(request.data) = 2
    /\ request.data[1] # request.data[2]
    /\ response.predictions[1].prediction # response.predictions[2].prediction

\* C7: a batch with a record that is invalid, or whose transform or inference
\* fails when it is predicted alone, is answered with an error and no
\* prediction at all.
C7_NoPartialResults ==
    (/\ request.op = "POST /predict/batch"
     /\ \E i \in DOMAIN request.data :
            \/ ~PredictionInput_valid(request.data[i])
            \/ ~predict(mgr, DataFrame(<<request.data[i]>>)).ok)
    => (response.status # 200 /\ ~ServesPrediction(response))

\* In Ready, a valid batch of a record that is predicted alone and a record
\* whose transform fails, answered 400 with no prediction.
C7_Witness ==
    /\ svc = "Ready"
    /\ request.op = "POST /predict/batch"
    /\ Accepted
    /\ Len(request.data) = 2
    /\ Alone(request.data[1]).status = 200
    /\ Alone(request.data[2]).status = 400
    /\ response.status = 400
    /\ response.predictions = <<>>

----------------------------------------------------------------------------
\* Properties of training and of serving what it saved (SpecTrain).

\* The latest run succeeded.
RunOk == ~IsNone(trained.run) /\ Get(trained.run).ok

\* The manager holds the artifacts the latest run fitted.
HoldsRunArtifacts ==
    /\ RunOk
    /\ mgr.ohe = Some(Get(Get(trained.run).artifacts).ohe)
    /\ mgr.fitted_lambda = Some(Get(Get(trained.run).artifacts).fitted_lambda)
    /\ mgr.product_target_mean = Some(Get(Get(trained.run).artifacts).product_target_mean)
    /\ mgr.overall_mean = Some(Get(Get(trained.run).artifacts).overall_mean)

\* The transform at hand was given the record of row i of rows, and its
\* result is row i of X alone.
ParityAt(rows, X, i) ==
    call.df = RecordFrame(rows[i])
        => (result.ok /\ result.df = Frame(X.columns, <<X.rows[i]>>))

\* C11: with the artifacts a training run fitted, preprocess_new_data of the
\* record of any row of that run, of either partition, gives the columns, in
\* order, and the values of the row the run made of it as model input; and
\* those columns are the ones the model was fitted on.
C11_TrainServeParity ==
    (call.op = "preprocess_new_data" /\ HoldsRunArtifacts) =>
        /\ \A i \in DOMAIN Get(trained.run).train_rows :
               ParityAt(Get(trained.run).train_rows, Get(trained.run).X_train, i)
        /\ \A i \in DOMAIN Get(trained.run).test_rows :
               ParityAt(Get(trained.run).test_rows, Get(trained.run).X_test, i)
        /\ Get(trained.run).X_train.columns = Get(Get(trained.run).model).feature_names

\* The record of a training row whose product line was missing, transformed
\* with the artifacts of the run it was in.
C11_Witness ==
    /\ call.op = "preprocess_new_data"
    /\ HoldsRunArtifacts
    /\ result.ok
    /\ \E i \in DOMAIN Get(trained.run).train_rows :
           /\ call.df = RecordFrame(Get(trained.run).train_rows[i])
           /\ Col(call.df, "ProductLine")[1] = NaN
           /\ Col(result.df, "ProductLine_Unidentified")[1] = Num(1)

\* C12: two runs with the same training partition fit the same exponent,
\* vocabulary, target-encoding table and fallback, and the same model,
\* whatever their evaluation partitions.
C12_NoLeakage ==
    (/\ RunOk
     /\ ~IsNone(trained.prev) /\ Get(trained.prev).ok
     /\ Get(trained.run).train_rows = Get(trained.prev).train_rows)
    => /\ Get(trained.run).artifacts = Get(trained.prev).artifacts
       /\ Get(trained.run).model = Get(trained.prev).model
       /\ Get(trained.run).X_train = Get(trained.prev).X_train

\* Two runs with the same training partition and evaluation partitions that
\* differ in a category the training partition lacks.
C12_Witness ==
    /\ RunOk
    /\ ~IsNone(trained.prev) /\ Get(trained.prev).ok
    /\ Get(trained.run).train_rows = Get(trained.prev).train_rows
    /\ Get(trained.run).test_rows # Get(trained.prev).test_rows
    /\ Get(trained.run).test_rows[1][7] = Str("Pacific")
    /\ \A i \in DOMAIN Get(trained.run).train_rows :
           Get(trained.run).train_rows[i][7] # Str("Pacific")

----------------------------------------------------------------------------
\* Properties of saving and loading (SpecStore).

\* The blob of a kind and name.
Blob(ms, ps, kind, name) == IF kind = "model" THEN ms[name] ELSE ps[name]

Kinds == {"model", "preprocessing"}

\* A manager that holds model and the four components of art.
Holding(model, art) ==
    [model |-> Some(model), ohe |-> Some(art.ohe),
     fitted_lambda |-> Some(art.fitted_lambda),
     product_target_mean |-> Some(art.product_target_mean),
     overall_mean |-> Some(art.overall_mean)]

\* The frames predictions are compared on.
SampleFrames == {DataFrame(<<r>>) : r \in BatchRecords} \cup {DataFrame(<<BaseRecord, BaseRecord>>)}

\* C13: load_complete_pipeline of a name whose model and artifacts were saved
\* succeeds and leaves the manager with the model and the four components
\* saved last under that name, and the manager then predicts on every sample
\* frame what the saved instances predict.
C13_RoundTrip ==
    (/\ call.op = "load_complete_pipeline"
     /\ written["model"][call.name].count > 0
     /\ written["preprocessing"][call.name].count > 0)
    => /\ result.ok
       /\ mgr = Holding(Get(written["model"][call.name].value),
                        Get(written["preprocessing"][call.name].value))
       /\ \A df \in SampleFrames :
              predict(mgr, df) = predict(Holding(Get(written["model"][call.name].value),
                                                 Get(written["preprocessing"][call.name].value)),
                                         df)

\* The second pipeline saved under the service's name, once, and loaded
\* again; the manager predicts with it.
C13_Witness ==
    /\ call = SaveCall("load_complete_pipeline", MODEL_NAME)
    /\ result.ok
    /\ written["model"][MODEL_NAME].count = 1
    /\ written["preprocessing"][MODEL_NAME].count = 1
    /\ mgr.model = Some(ModelB)
    /\ mgr.ohe = Some(ArtifactsB.ohe)
    /\ predict(mgr, DataFrame(<<BaseRecord>>)).ok

\* C16: a blob that was saved holds the value saved to it last, whatever it
\* held before; a step that saves nothing to a blob leaves it as it is; a
\* save of the value a blob already holds leaves the store as it is; and
\* load_model_joblib and load_preprocessing_components of a saved blob give
\* the value saved last.
C16_LastWriteWins ==
    [][/\ \A kind \in Kinds : \A n \in Names :
            /\ written'[kind][n].count > 0 =>
                   Blob(modelStore', prepStore', kind, n)
                       = Saved(Get(written'[kind][n].value))
            /\ written'[kind][n] = written[kind][n] =>
                   Blob(modelStore', prepStore', kind, n) = Blob(modelStore, prepStore, kind, n)
            /\ (written'[kind][n].count = written[kind][n].count + 1
                /\ Blob(modelStore, prepStore, kind, n) = Saved(Get(written'[kind][n].value)))
                   => Blob(modelStore', prepStore', kind, n)
                          = Blob(modelStore, prepStore, kind, n)
       /\ (call'.op = "load_model_joblib" /\ written'["model"][call'.name].count > 0) =>
              (result'.ok /\ result'.value = written'["model"][call'.name].value)
       /\ (call'.op = "load_preprocessing_components"
           /\ written'["preprocessing"][call'.name].count > 0) =>
              /\ result'.ok
              /\ mgr'.ohe = Some(Get(written'["preprocessing"][call'.name].value).ohe)
              /\ mgr'.fitted_lambda =
                     Some(Get(written'["preprocessing"][call'.name].value).fitted_lambda)
              /\ mgr'.product_target_mean =
                     Some(Get(written'["preprocessing"][call'.name].value).product_target_mean)
              /\ mgr'.overall_mean =
                     Some(Get(written'["preprocessing"][call'.name].value).overall_mean)
      ]_vars

\* A model blob saved twice with different models and then loaded: the load
\* gives the second.
C16_Witness ==
    /\ call.op = "load_model_joblib"
    /\ written["model"][call.name].count = 2
    /\ written["model"][call.name].before # written["model"][call.name].value
    /\ result.ok
    /\ result.value = written["model"][call.name].value

----------------------------------------------------------------------------
\* Properties of the service's errors (Spec) and of partial frames (SpecManager).

\* The error the manager raises for the request at hand, "" for none.
ServingError == predict(mgr, DataFrame(request.data)).err

\* C15: when the prediction of a valid request raises in a Ready service, the
\* answer is an internal error (500) and no part of its detail is the
\* exception's text.
C15_GenericInternalError ==
    (/\ svc = "Ready"
     /\ request.op \in PredictOps
     /\ Accepted
     /\ ServingError # "")
    => /\ response.status = 500
       /\ \A i \in DOMAIN response.detail : response.detail[i] # ServingError

\* The designated fields a frame has.
Available(df) == {f \in Range(ohe_cols) : HasCol(df, f)}

\* C17: with the artifacts loaded, the transform of a frame that lacks some
\* designated field and has another succeeds, with no indicator column of a
\* lacking field and every indicator column of each field it has.
C17_PartialFeatureSets ==
    (/\ call.op = "preprocess_new_data"
     /\ ArtifactsLoaded(mgr)
     /\ Available(call.df) # {}
     /\ Available(call.df) # Range(ohe_cols))
    => /\ result.ok
       /\ \A f \in Range(ohe_cols) : \A c \in Vocabulary(f) :
              HasCol(result.df, f \o "_" \o c) <=> f \in Available(call.df)

----------------------------------------------------------------------------
\* Read-only serving (Spec).

\* The manager as the startup load leaves a new manager.
Loaded == load_complete_pipeline(NewManager, modelStore, prepStore, MODEL_NAME).self

\* The answer of a route to the request req served alone by the loaded manager.
AnswerAlone(req) ==
    IF req.op = "GET /health" THEN health_check("manager", Loaded)
    ELSE IF req.op = "POST /predict"
    THEN IF PredictionInput_valid(req.data[1])
         THEN predict_revenue("manager", Loaded, req.data[1]) ELSE Unprocessable
    ELSE IF BatchPredictionInput_valid(req.data)
         THEN predict_revenue_batch("manager", Loaded, req.data) ELSE Unprocessable

\* C14: from the successful load to shutdown no step changes the manager, the
\* reference to it or the store; the manager stays as the load left it; and
\* every request gets the answer the loaded manager gives it alone, whatever
\* was served before, with the record it sent echoed unchanged.
C14_ReadOnlyAfterLoad ==
    [][(svc = "Ready" /\ svc' = "Ready") =>
          /\ mgr' = mgr
          /\ app_state' = app_state
          /\ modelStore' = modelStore /\ prepStore' = prepStore
          /\ mgr' = Loaded
          /\ request' # NoRequest =>
                 /\ response' = AnswerAlone(request')
                 /\ (request'.op = "POST /predict" /\ response'.status = 200) =>
                        response'.input_data = Some(request'.data[1])
      ]_vars

\* A prediction served in Ready from the first pipeline, for a record with an
\* unseen product.
C14_Witness ==
    /\ svc = "Ready"
    /\ mgr = Holding(ModelA, ArtifactsA)
    /\ request.op = "POST /predict"
    /\ request.data[1]["Name"] = Str("Touring-9000")
    /\ response.status = 200
    /\ response.input_data = Some(request.data[1])

====
